---------------------------- MODULE Spec2Model ----------------------------
(***************************************************************************)
(* A model of run_python (src/civic_data_server/tools/run_python.py): one  *)
(* invocation that writes a script to a temporary file, runs it in a child *)
(* process under a deadline, demultiplexes the child's stdout into user    *)
(* output and an artifact manifest, persists the artifacts and composes    *)
(* the result.                                                             *)
(*                                                                         *)
(* Text is a sequence of tokens.  A token is an atomic run of characters:  *)
(* an ordinary character, a line terminator, the marker, or a complete     *)
(* JSON document.  Python values are tagged records: [t |-> "None"],       *)
(* [t |-> "int", v |-> n], [t |-> "str", v |-> s], [t |-> "list", v |->    *)
(* seq], [t |-> "dict", v |-> f] with f a function from keys to strings.   *)
(* An optional value (None or a value) is the empty or the one-element     *)
(* sequence.                                                               *)
(***************************************************************************)
EXTENDS Integers, Sequences, FiniteSets, TLC

VARIABLES
    pc,               \* position of the invocation in run_python
    code,             \* the code argument
    capture_plots,    \* the capture_plots argument
    debug,            \* the debug argument
    os_environ,       \* MCP_RUN_PY_DEBUG in os.environ of the server process
    wrapped_code,     \* wrapped_code, as written to the temporary file
    env,              \* env: the environment built for the child
    timeout_seconds,  \* the timeout argument, coerced by the validation
    save_images,      \* the save_images argument (cleared when the directory fails)
    image_path,       \* the image_path argument
    return_markdown,  \* the return_markdown argument
    tmp_exists,       \* whether the file at tmp_path exists
    child,            \* the child process, as the operating system has it
    child_out,        \* what the child has written to its stdout
    child_err,        \* what the child has written to its stderr
    kill_sent,        \* SIGKILL has been queued for the child
    script,           \* where the child is in the prepared script
    returncode,       \* proc.returncode: None until the loop has seen the exit
    eof_seen,         \* the loop has read both pipes to their end
    timed_out,        \* the TimeoutError branch was taken
    stdout_text,      \* stdout_text
    stderr_text,      \* stderr_text
    marker_found,     \* marker_found
    plots,            \* plots
    dir_ready,        \* dir_ready
    is_public_served, \* is_public_served
    idx,              \* the index of the persistence loop
    image_urls,       \* image_urls
    files,            \* the files of the directory image_path, in creation order
    uuid_count,       \* how many uuid4 values were drawn, by any invocation
    peer,             \* history: what each turn of the persistence loop of a
                      \* concurrent invocation did in the same directory
    persist_log,      \* history: what the directory check and each turn of
                      \* the persistence loop did
    markdown,         \* markdown: None or the parts joined
    result            \* the returned dict: None until the return

vars == <<pc, code, capture_plots, debug, os_environ, wrapped_code, env,
          timeout_seconds, save_images, image_path, return_markdown,
          tmp_exists, child, child_out, child_err, kill_sent, script,
          returncode,
          eof_seen, timed_out, stdout_text, stderr_text, marker_found, plots,
          dir_ready, is_public_served, idx, image_urls, files, uuid_count,
          persist_log, peer, markdown, result>>

---------------------------------------------------------------------------
(* Bounds of the model *)

\* the child writes at most this many tokens to stdout in the executor model
MaxOut == 2
\* the child writes at most this many tokens to stderr
MaxErr == 1
\* the longest stdout text given to the demultiplexer model
MaxLen == 5
\* the longest manifest given to the persister model
MaxPlots == 2

---------------------------------------------------------------------------
(* Python values *)

None == <<>>
Some(x) == <<x>>

PyNone == [t |-> "None"]
PyInt(n) == [t |-> "int", v |-> n]
PyStr(s) == [t |-> "str", v |-> s]
PyList(xs) == [t |-> "list", v |-> xs]
PyDict(d) == [t |-> "dict", v |-> d]

\* bool(x)
Truthy(x) ==
    CASE x.t = "None" -> FALSE
      [] x.t = "int" -> x.v # 0
      [] x.t = "str" -> x.v # ""
      [] x.t = "list" -> x.v # <<>>
      [] x.t = "dict" -> DOMAIN x.v # {}

\* d.get(k) of a dict value: the empty string stands for the absent key,
\* which is falsy like None
Get(p, k) == IF k \in DOMAIN p.v THEN p.v[k] ELSE ""

\* d[k] = x
SetKey(p, k, x) ==
    PyDict([j \in DOMAIN p.v \cup {k} |-> IF j = k THEN x ELSE p.v[j]])

\* del d[k], and {j: v for j, v in d.items() if j != k}
DelKey(p, k) == PyDict([j \in DOMAIN p.v \ {k} |-> p.v[j]])

\* the items a for loop over x visits; None when iter(x) raises TypeError.
\* A str is visited character by character, each a str.
IterItems(x) ==
    CASE x.t = "list" -> Some(x.v)
      [] x.t = "str" -> Some(IF x.v = "" THEN <<>> ELSE <<PyStr(x.v)>>)
      [] x.t = "dict" -> Some(<<>>)
      [] OTHER -> None

---------------------------------------------------------------------------
(* Text *)

NL == "\n"
CR == "\r"
\* the terminators str.splitlines() breaks at, among the tokens of the model
LineBreaks == {NL, CR}
\* whitespace for str.strip() and str.rstrip(), among the tokens of the model
Whitespace == {NL, CR}

marker == <<"__MCP_PLOTS__=">>

\* line.startswith(prefix)
StartsWith(line, prefix) ==
    /\ Len(line) >= Len(prefix)
    /\ SubSeq(line, 1, Len(prefix)) = prefix

\* needle in text
Contains(text, needle) ==
    \E i \in 1..(Len(text) - Len(needle) + 1) :
        SubSeq(text, i, i + Len(needle) - 1) = needle

\* the end of the line starting at i: the first j >= i with a terminator at
\* j, or Len(text) + 1
RECURSIVE LineEnd(_, _)
LineEnd(text, j) ==
    IF j > Len(text) \/ text[j] \in LineBreaks THEN j ELSE LineEnd(text, j + 1)

\* text.splitlines(): "\r\n" is one terminator, and a terminator at the end of
\* the text opens no further line
RECURSIVE SplitFrom(_, _)
SplitFrom(text, i) ==
    IF i > Len(text) THEN <<>>
    ELSE LET j == LineEnd(text, i)
             eol == IF j < Len(text) /\ text[j] = CR /\ text[j + 1] = NL
                    THEN j + 2 ELSE j + 1
         IN  <<SubSeq(text, i, j - 1)>> \o SplitFrom(text, eol)

SplitLines(text) == SplitFrom(text, 1)

\* "\n".join(lines)
RECURSIVE JoinNL(_)
JoinNL(lines) ==
    IF lines = <<>> THEN <<>>
    ELSE IF Len(lines) = 1 THEN lines[1]
    ELSE lines[1] \o <<NL>> \o JoinNL(Tail(lines))

\* text.rstrip()
RECURSIVE RStrip(_)
RStrip(text) ==
    IF text # <<>> /\ text[Len(text)] \in Whitespace
    THEN RStrip(SubSeq(text, 1, Len(text) - 1))
    ELSE text

---------------------------------------------------------------------------
(* JSON documents the child can print after the marker *)

\* the objects a manifest of the model is made of, by the name used in its
\* JSON token: two ordinary figures, one that already names a url, one of
\* another type, one without data, one whose base64 text is badly padded and
\* one whose data has no comma
PlotOf ==
    ("A" :> [type |-> "base64", data |-> "data:image/png;base64,QQ==", title |-> "A"])
    @@ ("B" :> [type |-> "base64", data |-> "data:image/png;base64,Qg=="])
    @@ ("U" :> [type |-> "base64", data |-> "data:image/png;base64,QQ==", title |-> "U",
                url |-> "http://elsewhere.example/u.png"])
    @@ ("X" :> [type |-> "svg", data |-> "data:image/png;base64,QQ==", title |-> "X"])
    @@ ("N" :> [type |-> "base64", title |-> "N"])
    @@ ("P" :> [type |-> "base64", data |-> "data:image/png;base64,QQ", title |-> "P"])
    @@ ("Q" :> [type |-> "base64", data |-> "QQ==", title |-> "Q"])

RECURSIVE SeqsUpTo(_, _)
SeqsUpTo(S, n) ==
    IF n = 0 THEN {<<>>}
    ELSE LET shorter == SeqsUpTo(S, n - 1)
         IN  shorter \cup {Append(t, c) : t \in shorter, c \in S}

\* the manifests of the model: arrays of at most MaxPlots objects
Manifests == SeqsUpTo(DOMAIN PlotOf, MaxPlots)

RECURSIVE JoinComma(_)
JoinComma(names) ==
    IF names = <<>> THEN ""
    ELSE IF Len(names) = 1 THEN names[1]
    ELSE names[1] \o "," \o JoinComma(Tail(names))

\* the JSON token of a manifest: "[A,B]" stands for the array of the objects
\* A and B
ManifestToken(names) == "[" \o JoinComma(names) \o "]"

\* the decoded value of each JSON token
JsonValue ==
    ("null" :> PyNone)
    @@ ("7" :> PyInt(7))
    @@ ("\"s\"" :> PyStr("s"))
    @@ ("[1]" :> PyList(<<PyInt(1)>>))
    @@ [tok \in {ManifestToken(m) : m \in Manifests} |->
           LET m == CHOOSE m \in Manifests : ManifestToken(m) = tok
           IN  PyList([i \in 1..Len(m) |-> PyDict(PlotOf[m[i]])])]

\* json.loads(text): the value, or None when it raises.  A text decodes when
\* it is exactly one JSON document; no other token of the model is JSON, and
\* two documents side by side are "Extra data".
JsonLoads(text) ==
    IF Len(text) = 1 /\ text[1] \in DOMAIN JsonValue
    THEN Some(JsonValue[text[1]])
    ELSE None


---------------------------------------------------------------------------
(* The request and the environment *)

\* values a caller passes as timeout_seconds
TimeoutInputs == {PyInt(-1), PyInt(0), PyInt(5), PyStr("5"), PyStr("abc"), PyNone}

DefaultTimeout == 60

\* int(x): the integer, or None when it raises
IntOf(x) ==
    CASE x.t = "int" -> Some(x.v)
      [] x.t = "str" /\ x.v = "5" -> Some(5)
      [] OTHER -> None

\* CoerceTimeout with zero let through
CoerceTimeout_KeepsZero(x) ==
    LET n == IF IntOf(x) = None THEN DefaultTimeout ELSE IntOf(x)[1]
    IN  IF n < 0 THEN DefaultTimeout ELSE n

\* the input validation: the coerced timeout_seconds
CoerceTimeout(x) ==
    LET n == IF IntOf(x) = None THEN DefaultTimeout ELSE IntOf(x)[1]
    IN  IF n <= 0 THEN DefaultTimeout ELSE n

base_url == "https://www.liverpoolcivicdata.com"
project_dir == "/srv/app/src"
public_plot_dir == project_dir \o "/temp/plot"
image_default_path == "/tmp" \o "/plot"

\* directories a caller passes as image_path
Paths == {public_plot_dir, project_dir \o "/temp/../temp/plot", image_default_path}

\* os.path.abspath(path): the normalised absolute path
AbsPath(path) ==
    IF path = project_dir \o "/temp/../temp/plot" THEN project_dir \o "/temp/plot"
    ELSE path

\* exit statuses of a child that ends by itself
ExitCodes == {0, 1}

\* tokens the child writes in the executor model
ChildTokens == {"a", NL, marker[1], "[A]", "null"}

\* tokens of the stdout texts given to the demultiplexer model
DemuxTokens == {"a", NL, CR, marker[1], "[A]", "[B]"}

---------------------------------------------------------------------------
(* Process executor *)

NoChild == [st |-> "none", code |-> None]

\* the script position of a child whose script is not followed statement by
\* statement
NoScript == [at |-> "opaque"]

\* the code of the model's requests: empty, without and with a final newline
Codes == {<<>>, <<"x = 1">>, <<"x = 1", NL>>}

\* values MCP_RUN_PY_DEBUG has in an environment: absent, '1', another value
Toggles == {None, Some("1"), Some("0")}

\* env before line 198
NoEnv == [built |-> FALSE]

\* the locals and the world at the entry of run_python
AtEntry ==
    /\ pc = "start"
    /\ wrapped_code = None
    /\ env = NoEnv
    /\ tmp_exists = FALSE
    /\ child = NoChild
    /\ child_out = <<>>
    /\ child_err = <<>>
    /\ kill_sent = FALSE
    /\ script = NoScript
    /\ returncode = None
    /\ eof_seen = FALSE
    /\ timed_out = FALSE
    /\ stdout_text = <<>>
    /\ stderr_text = <<>>
    /\ marker_found = FALSE
    /\ plots = PyList(<<>>)
    /\ dir_ready = FALSE
    /\ is_public_served = FALSE
    /\ idx = 0
    /\ image_urls = <<>>
    /\ files = <<>>
    /\ uuid_count = 0
    /\ persist_log = <<>>
    /\ peer = <<>>
    /\ markdown = None
    /\ result = None

Init ==
    /\ code = <<"x = 1", NL>>
    /\ capture_plots = TRUE
    /\ debug = FALSE
    /\ os_environ = None
    /\ timeout_seconds \in TimeoutInputs
    /\ save_images \in BOOLEAN
    /\ image_path \in Paths
    /\ return_markdown \in BOOLEAN
    /\ AtEntry

prepVars == <<code, capture_plots, debug, os_environ, wrapped_code, env>>
requestVars == <<save_images, image_path, return_markdown, prepVars>>
childVars == <<child, child_out, child_err, kill_sent, script>>
procVars == <<returncode, eof_seen>>
outVars == <<stdout_text, stderr_text, marker_found, plots>>
persistVars == <<dir_ready, is_public_served, idx, image_urls, files,
                 uuid_count, persist_log, peer>>

\* lines 88-94
Validate ==
    /\ pc = "start"
    /\ timeout_seconds' = PyInt(CoerceTimeout(timeout_seconds))
    /\ pc' = "validated"
    /\ UNCHANGED <<requestVars, tmp_exists, childVars, procVars, timed_out,
                   outVars, persistVars, markdown, result>>

\* plot_collector, lines 96-185: a fixed text that begins and ends with a
\* newline
plot_collector ==
    <<NL, "# --- MCP plot collector ---", NL, "try: ... except Exception: pass", NL>>

\* WrappedCode with the user's code stripped of surrounding whitespace
WrappedCode_Stripped(text, capture) ==
    LET body == RStrip(text)
    IN  IF capture THEN body \o <<NL, NL>> \o plot_collector \o <<NL>>
        ELSE body

\* lines 187-191: wrapped_code
WrappedCode(text, capture) ==
    IF capture THEN text \o <<NL, NL>> \o plot_collector \o <<NL>>
    ELSE text

\* lines 187-196: the script is prepared and written to a file that outlives
\* the with block
WriteTemp ==
    /\ pc = "validated"
    /\ wrapped_code' = Some(WrappedCode(code, capture_plots))
    /\ tmp_exists' = TRUE
    /\ pc' = "tmp_written"
    /\ UNCHANGED <<timeout_seconds, save_images, image_path, return_markdown,
                   code, capture_plots, debug, os_environ, env, childVars,
                   procVars, timed_out, outVars, persistVars, markdown, result>>

\* ChildEnv with the inherited toggle left in place when debug is off
ChildEnv_Inherits(flag, inherited) ==
    [built |-> TRUE, toggle |-> IF flag THEN Some("1") ELSE inherited]

\* lines 198-202: the copy of os.environ with the toggle set or removed
ChildEnv(flag, inherited) ==
    [built |-> TRUE, toggle |-> IF flag THEN Some("1") ELSE None]

\* lines 198-210, the environment is built and the child is created with it
Spawn ==
    /\ pc = "tmp_written"
    /\ env' = ChildEnv(debug, os_environ)
    /\ child' = [st |-> "running", code |-> None]
    /\ pc' = "waiting"
    /\ UNCHANGED <<timeout_seconds, save_images, image_path, return_markdown,
                   code, capture_plots, debug, os_environ, wrapped_code,
                   tmp_exists, child_out,
                   child_err, kill_sent, script, procVars, timed_out, outVars,
                   persistVars, markdown, result>>

\* lines 204-210, create_subprocess_exec raises: the call is outside the try
\* statement, so the exception leaves run_python at once
SpawnFail ==
    /\ pc = "tmp_written"
    /\ env' = ChildEnv(debug, os_environ)
    /\ pc' = "raised"
    /\ UNCHANGED <<timeout_seconds, save_images, image_path, return_markdown,
                   code, capture_plots, debug, os_environ, wrapped_code,
                   tmp_exists, childVars,
                   procVars, timed_out, outVars, persistVars, markdown, result>>

\* the child prints a token
ChildWrite ==
    /\ child.st = "running"
    /\ ~kill_sent
    /\ Len(child_out) < MaxOut
    /\ \E c \in ChildTokens : child_out' = Append(child_out, c)
    /\ UNCHANGED <<pc, timeout_seconds, requestVars, tmp_exists, child,
                   child_err, kill_sent, script, procVars, timed_out, outVars,
                   persistVars, markdown, result>>

\* the child prints a token to stderr
ChildWriteErr ==
    /\ child.st = "running"
    /\ ~kill_sent
    /\ Len(child_err) < MaxErr
    /\ child_err' = Append(child_err, "e")
    /\ UNCHANGED <<pc, timeout_seconds, requestVars, tmp_exists, child,
                   child_out, kill_sent, script, procVars, timed_out, outVars,
                   persistVars, markdown, result>>

\* the child ends by itself
ChildExit ==
    /\ child.st = "running"
    /\ \E c \in ExitCodes : child' = [st |-> "exited", code |-> Some(c)]
    /\ UNCHANGED <<pc, timeout_seconds, requestVars, tmp_exists, child_out,
                   child_err, kill_sent, script, procVars, timed_out, outVars,
                   persistVars, markdown, result>>

\* the kernel delivers the queued SIGKILL
ChildKilled ==
    /\ child.st = "running"
    /\ kill_sent
    /\ child' = [st |-> "exited", code |-> Some(-9)]
    /\ UNCHANGED <<pc, timeout_seconds, requestVars, tmp_exists, child_out,
                   child_err, kill_sent, script, procVars, timed_out, outVars,
                   persistVars, markdown, result>>

\* line 213, while run_python is suspended: the event loop learns of the
\* child's exit and sets proc.returncode
ObserveExit ==
    /\ pc = "waiting"
    /\ child.st = "exited"
    /\ returncode = None
    /\ returncode' = child.code
    /\ UNCHANGED <<pc, timeout_seconds, requestVars, tmp_exists, childVars,
                   eof_seen, timed_out, outVars, persistVars, markdown, result>>

\* line 213, while run_python is suspended: the event loop reads the pipes to
\* their end.  The write ends are closed no earlier than the child's exit (a
\* descendant that inherited them keeps them open longer).
ObserveEOF ==
    /\ pc = "waiting"
    /\ child.st = "exited"
    /\ ~eof_seen
    /\ eof_seen' = TRUE
    /\ UNCHANGED <<pc, timeout_seconds, requestVars, tmp_exists, childVars,
                   returncode, timed_out, outVars, persistVars, markdown, result>>

\* communicate() is done: both pipes at their end and the exit seen
CommunicateReady == eof_seen /\ returncode # None

\* line 213, communicate() returns before the deadline
CommunicateDone ==
    /\ pc = "waiting"
    /\ CommunicateReady
    /\ stdout_text' = child_out
    /\ stderr_text' = child_err
    /\ pc' = "finally"
    /\ UNCHANGED <<timeout_seconds, requestVars, tmp_exists, childVars,
                   procVars, timed_out, marker_found, plots, persistVars,
                   markdown, result>>

\* lines 213-214, the deadline passes first: wait_for cancels communicate()
\* and raises TimeoutError
DeadlineExpire ==
    /\ pc = "waiting"
    /\ ~CommunicateReady
    /\ timed_out' = TRUE
    /\ pc' = "timeout"
    /\ UNCHANGED <<timeout_seconds, requestVars, tmp_exists, childVars,
                   procVars, outVars, persistVars, markdown, result>>

\* the stderr of a timed-out invocation, line 219
TimeoutMessage(n) == <<"Timed out after ", ToString(n), " seconds">>

\* KillChild with the output read so far kept
KillChild_KeepsOutput ==
    /\ pc = "timeout"
    /\ kill_sent' = (returncode = None /\ child.st = "running")
    /\ stdout_text' = child_out
    /\ stderr_text' = TimeoutMessage(timeout_seconds.v)
    /\ pc' = "finally"
    /\ UNCHANGED <<timeout_seconds, requestVars, tmp_exists, child, child_out,
                   child_err, script, procVars, timed_out, marker_found, plots,
                   persistVars, markdown, result>>

\* lines 215-219: proc.kill() signals the child unless its exit was seen (any
\* exception is swallowed), and nothing waits for the child afterwards
KillChild ==
    /\ pc = "timeout"
    /\ kill_sent' = (returncode = None /\ child.st = "running")
    /\ stdout_text' = <<>>
    /\ stderr_text' = TimeoutMessage(timeout_seconds.v)
    /\ pc' = "finally"
    /\ UNCHANGED <<timeout_seconds, requestVars, tmp_exists, child, child_out,
                   child_err, script, procVars, timed_out, marker_found, plots,
                   persistVars, markdown, result>>

\* lines 220-224
Unlink ==
    /\ pc = "finally"
    /\ tmp_exists' = FALSE
    /\ pc' = "decode"
    /\ UNCHANGED <<timeout_seconds, requestVars, childVars, procVars,
                   timed_out, outVars, persistVars, markdown, result>>

\* line 213: the caller cancels the task while it awaits communicate();
\* wait_for cancels communicate() and re-raises the CancelledError, which the
\* except clause of line 214 (asyncio.TimeoutError) does not catch
Cancel ==
    /\ pc = "waiting"
    /\ pc' = "cancelling"
    /\ UNCHANGED <<timeout_seconds, requestVars, tmp_exists, childVars,
                   procVars, timed_out, outVars, persistVars, markdown, result>>

\* CancelUnwind with the file left in place
CancelUnwind_KeepsFile ==
    /\ pc = "cancelling"
    /\ pc' = "cancelled"
    /\ UNCHANGED <<timeout_seconds, requestVars, tmp_exists, childVars,
                   procVars, timed_out, outVars, persistVars, markdown, result>>

\* lines 220-224 on that path: the finally clause removes the file, then the
\* CancelledError leaves run_python; nothing signals the child
CancelUnwind ==
    /\ pc = "cancelling"
    /\ tmp_exists' = FALSE
    /\ pc' = "cancelled"
    /\ UNCHANGED <<timeout_seconds, requestVars, childVars, procVars,
                   timed_out, outVars, persistVars, markdown, result>>

---------------------------------------------------------------------------
(* The prepared script in the child: the user's code, then plot_collector *)

\* the child is running and has not been signalled
ChildRuns == child.st = "running" /\ ~kill_sent

\* the user's code prints a token
UserWrite ==
    /\ ChildRuns
    /\ script.at = "user"
    /\ Len(child_out) < MaxOut
    /\ \E c \in {"a", NL} : child_out' = Append(child_out, c)
    /\ UNCHANGED <<pc, timeout_seconds, requestVars, tmp_exists, child,
                   child_err, kill_sent, script, procVars, timed_out, outVars,
                   persistVars, markdown, result>>

\* the user's code leaves the interpreter before its last statement is done
\* (sys.exit, an uncaught exception): the epilogue is not reached
UserExit ==
    /\ ChildRuns
    /\ script.at = "user"
    /\ \E c \in ExitCodes : child' = [st |-> "exited", code |-> Some(c)]
    /\ script' = [script EXCEPT !.at = "aborted"]
    /\ UNCHANGED <<pc, timeout_seconds, requestVars, tmp_exists, child_out,
                   child_err, kill_sent, procVars, timed_out, outVars,
                   persistVars, markdown, result>>

\* lines 187-191: the user's code is done; with capture_plots the epilogue
\* follows it, without it the script is over
UserEnd ==
    /\ ChildRuns
    /\ script.at = "user"
    /\ script' = [script EXCEPT !.at = IF script.capture THEN "imports" ELSE "end",
                                !.user_len = Len(child_out)]
    /\ UNCHANGED <<pc, timeout_seconds, requestVars, tmp_exists, child,
                   child_out, child_err, kill_sent, procVars, timed_out,
                   outVars, persistVars, markdown, result>>

\* a step of the epilogue inside the try of line 99: it goes on to the
\* position next after writing out and err, or raises an Exception, which
\* line 177 catches
EpilogueStep(from, next, out, err) ==
    /\ ChildRuns
    /\ script.at = from
    /\ \/ /\ script' = [script EXCEPT !.at = next]
          /\ child_out' = child_out \o out
          /\ child_err' = child_err \o err
       \/ /\ script' = [script EXCEPT !.at = "handler", !.failed = TRUE]
          /\ UNCHANGED <<child_out, child_err>>
    /\ UNCHANGED <<pc, timeout_seconds, requestVars, tmp_exists, child,
                   kill_sent, procVars, timed_out, outVars, persistVars,
                   markdown, result>>

\* what a debug print adds to stderr: lines 106, 108
DebugLine == IF script.debug THEN <<"DEBUG">> ELSE <<>>

\* lines 100-108: the imports and the first debug print
EpilogueImports ==
    /\ script.at = "imports"
    /\ EpilogueStep("imports", "show", <<>>, DebugLine)

\* lines 110-115: plt.show in its own try, then the figure managers are listed
EnumerateFigures ==
    /\ script.at = "show"
    /\ EpilogueStep("show", "figures", <<>>, DebugLine)

\* lines 116-143, one figure: it is rendered and appended, by the first
\* attempt or by the fallback, or both fail and it is left out; nothing is
\* raised
CollectFigure ==
    /\ ChildRuns
    /\ script.at = "figures"
    /\ script.figs # <<>>
    /\ \E kept \in BOOLEAN :
           script' = [script EXCEPT
                         !.figs = Tail(@),
                         !.plots = IF kept THEN Append(@, Head(script.figs)) ELSE @]
    /\ child_err' = child_err \o DebugLine
    /\ UNCHANGED <<pc, timeout_seconds, requestVars, tmp_exists, child,
                   child_out, kill_sent, procVars, timed_out, outVars,
                   persistVars, markdown, result>>

\* lines 144-174: the Plotly figures among the globals, in a try of its own
\* (the model's scripts have none)
CollectPlotly ==
    /\ script.figs = <<>>
    /\ EpilogueStep("figures", "blank", <<>>, DebugLine)

\* line 175: print()
PrintBlank ==
    /\ script.at = "blank"
    /\ EpilogueStep("blank", "emit", <<NL>>, <<>>)

\* line 176: the sentinel line
PrintManifest ==
    /\ script.at = "emit"
    /\ EpilogueStep("emit", "end",
                    marker \o <<ManifestToken(script.plots), NL>>, <<>>)

\* a step of the handler, inside the try of line 178: an Exception ends the
\* handler (lines 183-184, pass)
HandlerStep(from, next, out, err) ==
    /\ ChildRuns
    /\ script.at = from
    /\ \/ /\ script' = [script EXCEPT !.at = next]
          /\ child_out' = child_out \o out
          /\ child_err' = child_err \o err
       \/ /\ script' = [script EXCEPT !.at = "end"]
          /\ UNCHANGED <<child_out, child_err>>
    /\ UNCHANGED <<pc, timeout_seconds, requestVars, tmp_exists, child,
                   kill_sent, procVars, timed_out, outVars, persistVars,
                   markdown, result>>

\* lines 179-180: the error is printed to stderr, debug or not
HandlerReport ==
    /\ script.at = "handler"
    /\ HandlerStep("handler", "handler_emit", <<>>,
                   <<"DEBUG: Plot collector error">>)

\* lines 181-182: the sentinel line with the empty list
HandlerEmit ==
    /\ script.at = "handler_emit"
    /\ HandlerStep("handler_emit", "end",
                   marker \o <<ManifestToken(<<>>), NL>>, <<>>)

\* the script is over: the interpreter exits with status 0
ScriptEnd ==
    /\ ChildRuns
    /\ script.at = "end"
    /\ child' = [st |-> "exited", code |-> Some(0)]
    /\ script' = [script EXCEPT !.at = "exited"]
    /\ UNCHANGED <<pc, timeout_seconds, requestVars, tmp_exists, child_out,
                   child_err, kill_sent, procVars, timed_out, outVars,
                   persistVars, markdown, result>>

---------------------------------------------------------------------------
(* Output demultiplexer *)

\* DemuxStep with a sentinel line that fails to decode kept as user output
DemuxStep_KeepsBadLine(acc, line) ==
    IF StartsWith(line, marker)
    THEN LET decoded == JsonLoads(SubSeq(line, Len(marker) + 1, Len(line)))
         IN  IF decoded = None
             THEN [plots |-> PyList(<<>>),
                   remaining_lines |-> Append(acc.remaining_lines, line)]
             ELSE [acc EXCEPT !.plots = decoded[1]]
    ELSE [acc EXCEPT !.remaining_lines = Append(@, line)]

\* DemuxStep with a line that fails to decode leaving the held list alone
DemuxStep_BadLineKeepsList(acc, line) ==
    IF StartsWith(line, marker)
    THEN LET decoded == JsonLoads(SubSeq(line, Len(marker) + 1, Len(line)))
         IN  IF decoded = None THEN acc ELSE [acc EXCEPT !.plots = decoded[1]]
    ELSE [acc EXCEPT !.remaining_lines = Append(@, line)]

\* lines 237-243, one turn of the loop over the lines: acc holds plots and
\* remaining_lines
DemuxStep(acc, line) ==
    IF StartsWith(line, marker)
    THEN LET decoded == JsonLoads(SubSeq(line, Len(marker) + 1, Len(line)))
         IN  [acc EXCEPT !.plots = IF decoded = None THEN PyList(<<>>)
                                   ELSE decoded[1]]
    ELSE [acc EXCEPT !.remaining_lines = Append(@, line)]

\* lines 235-243, the loop
RECURSIVE DemuxLoop(_, _)
DemuxLoop(lines, acc) ==
    IF lines = <<>> THEN acc
    ELSE DemuxLoop(Tail(lines), DemuxStep(acc, Head(lines)))

\* line 230
MarkerFound(text) == Contains(text, marker)

\* Demux applied only when capture was requested
Demux_OnlyWhenCapturing(text) ==
    IF capture_plots /\ MarkerFound(text)
    THEN LET acc == DemuxLoop(SplitLines(text),
                              [plots |-> PyList(<<>>), remaining_lines |-> <<>>])
         IN  [stdout_text |-> JoinNL(acc.remaining_lines),
              plots |-> acc.plots,
              marker_found |-> TRUE]
    ELSE [stdout_text |-> text, plots |-> PyList(<<>>), marker_found |-> FALSE]

\* lines 226-244: [stdout_text, plots, marker_found] for the decoded stdout
Demux(text) ==
    IF MarkerFound(text)
    THEN LET acc == DemuxLoop(SplitLines(text),
                              [plots |-> PyList(<<>>), remaining_lines |-> <<>>])
         IN  [stdout_text |-> JoinNL(acc.remaining_lines),
              plots |-> acc.plots,
              marker_found |-> TRUE]
    ELSE [stdout_text |-> text, plots |-> PyList(<<>>), marker_found |-> FALSE]

\* lines 226-244
Demultiplex ==
    /\ pc = "decode"
    /\ LET d == Demux(stdout_text)
       IN  /\ stdout_text' = d.stdout_text
           /\ plots' = d.plots
           /\ marker_found' = d.marker_found
    /\ pc' = "demuxed"
    /\ UNCHANGED <<timeout_seconds, requestVars, tmp_exists, childVars,
                   procVars, timed_out, stderr_text, persistVars, markdown,
                   result>>

---------------------------------------------------------------------------
(* Artifact persister *)

\* line 248
WantsPersist == save_images /\ Truthy(plots)

\* line 248, the condition is false: nothing is persisted
PersistSkip ==
    /\ pc = "demuxed"
    /\ ~WantsPersist
    /\ pc' = "persisted"
    /\ UNCHANGED <<timeout_seconds, requestVars, tmp_exists, childVars,
                   procVars, timed_out, outVars, persistVars, markdown, result>>

\* lines 250-261: the directory cannot be made or is not writable
DirNotReady ==
    /\ pc = "demuxed"
    /\ WantsPersist
    /\ dir_ready' = FALSE
    /\ save_images' = FALSE
    /\ persist_log' = Append(persist_log, [outcome |-> "dir_not_ready", name |-> ""])
    /\ pc' = "persisted"
    /\ UNCHANGED <<timeout_seconds, image_path, return_markdown, prepVars,
                   tmp_exists, childVars, procVars, timed_out, outVars,
                   is_public_served,
                   idx, image_urls, files, uuid_count, peer, markdown,
                   result>>

\* IsPublicServed with the comparison left out: every directory is served
IsPublicServed_Always(path) == TRUE

\* IsPublicServed comparing the paths as given
IsPublicServed_AsGiven(path) == path = public_plot_dir

\* line 265
IsPublicServed(path) == AbsPath(path) = AbsPath(public_plot_dir)

\* lines 250-268: the directory is there and writable; enumerate(plots) raises
\* TypeError for a value that cannot be iterated
DirReady ==
    /\ pc = "demuxed"
    /\ WantsPersist
    /\ dir_ready' = TRUE
    /\ is_public_served' = IsPublicServed(image_path)
    /\ idx' = 1
    /\ pc' = IF IterItems(plots) = None THEN "raised" ELSE "persisting"
    /\ UNCHANGED <<timeout_seconds, requestVars, tmp_exists, childVars,
                   procVars, timed_out, outVars, image_urls, files, uuid_count,
                   persist_log, peer, markdown, result>>

\* line 272, p['data'].split(',', 1)[1]: None when there is no comma
\* (IndexError)
Base64Part(data) ==
    CASE data = "data:image/png;base64,QQ==" -> Some("QQ==")
      [] data = "data:image/png;base64,Qg==" -> Some("Qg==")
      [] data = "data:image/png;base64,QQ" -> Some("QQ")
      [] OTHER -> None

\* line 282, base64.b64decode(img_data) returns: the padding is correct
B64Decodes(img_data) == img_data \in {"QQ==", "Qg=="}

\* Filename with the index of the loop in place of a uuid4 value
Filename_ByIndex(n) == "plot_" \o ToString(idx) \o ".png"

\* line 275: the name for the n-th uuid4 value drawn.  uuid4 takes 122 bits
\* from os.urandom; the model takes every value drawn, by this invocation or
\* another, to differ from all earlier ones.
Filename(n) == "plot_" \o ToString(n) \o ".png"

\* lines 288-289; rstrip('/') leaves the configured base unchanged
UrlPath(filename) == base_url \o "/temp/plot/" \o filename

\* IsInline without the test of the type
IsInline_AnyKind(p) == Get(p, "data") # ""

\* line 269
IsInline(p) == Get(p, "type") = "base64" /\ Get(p, "data") # ""

\* lines 290-294: the artifact becomes external
MarkExternal(p, url) == DelKey(SetKey(p, "url", url), "data")

\* what the operating system can answer to lines 281-284
WriteOutcomes == {"ok", "open_fails", "write_fails", "chmod_fails"}

\* the file lines 281-284 leave behind under each outcome: open() creates it
\* before b64decode and write run
FileLeft(name, outcome) ==
    CASE outcome = "open_fails" -> <<>>
      [] outcome = "decode_fails" -> <<[name |-> name, content |-> "empty", mode |-> "umask"]>>
      [] outcome = "write_fails" -> <<[name |-> name, content |-> "partial", mode |-> "umask"]>>
      [] outcome = "chmod_fails" -> <<[name |-> name, content |-> "complete", mode |-> "umask"]>>
      [] outcome = "ok" -> <<[name |-> name, content |-> "complete", mode |-> "0644"]>>

\* line 281, open(filepath, 'wb') and what follows it, in the directory dir:
\* a file of that name is truncated and rewritten, another name adds a file
Store(dir, left) ==
    IF left = <<>> THEN dir
    ELSE IF \E k \in 1..Len(dir) : dir[k].name = left[1].name
    THEN [k \in 1..Len(dir) |->
             IF dir[k].name = left[1].name THEN left[1] ELSE dir[k]]
    ELSE dir \o left

\* SaveOne with the url set and the payload dropped before the file is written
SaveOne_UrlBeforeWrite(p, outcome) ==
    LET filename == Filename(uuid_count + 1)
        url == UrlPath(filename)
    IN  /\ uuid_count' = uuid_count + 1
        /\ persist_log' = Append(persist_log, [outcome |-> outcome, name |-> filename])
        /\ files' = Store(files, FileLeft(filename, outcome))
        /\ plots' = IF is_public_served
                    THEN [plots EXCEPT !.v[idx] = MarkExternal(p, url)]
                    ELSE plots
        /\ image_urls' = IF outcome = "ok" /\ is_public_served
                         THEN Append(image_urls, url) ELSE image_urls

\* lines 268-300, one turn of the loop for an inline artifact whose data has
\* a comma
SaveOne(p, outcome) ==
    LET filename == Filename(uuid_count + 1)
        url == UrlPath(filename)
        external == outcome = "ok" /\ is_public_served
    IN  /\ uuid_count' = uuid_count + 1
        /\ persist_log' = Append(persist_log, [outcome |-> outcome, name |-> filename])
        /\ files' = Store(files, FileLeft(filename, outcome))
        /\ plots' = IF external
                    THEN [plots EXCEPT !.v[idx] = MarkExternal(p, url)]
                    ELSE plots
        /\ image_urls' = IF external THEN Append(image_urls, url) ELSE image_urls

\* lines 268-300, one turn of the loop
PersistOne ==
    /\ pc = "persisting"
    /\ idx <= Len(IterItems(plots)[1])
    /\ LET p == IterItems(plots)[1][idx]
       IN  IF p.t # "dict"
           THEN \* line 269, p.get raises AttributeError outside the try
                /\ pc' = "raised"
                /\ UNCHANGED <<plots, idx, image_urls, files, uuid_count,
                               persist_log>>
           ELSE /\ pc' = "persisting"
                /\ idx' = idx + 1
                /\ IF ~IsInline(p)
                   THEN /\ persist_log' = Append(persist_log, [outcome |-> "not_inline", name |-> ""])
                        /\ UNCHANGED <<plots, image_urls, files, uuid_count>>
                   ELSE IF Base64Part(Get(p, "data")) = None
                   THEN /\ persist_log' = Append(persist_log, [outcome |-> "no_comma", name |-> ""])
                        /\ UNCHANGED <<plots, image_urls, files, uuid_count>>
                   ELSE IF ~B64Decodes(Base64Part(Get(p, "data"))[1])
                   THEN \E outcome \in {"open_fails", "decode_fails"} :
                            SaveOne(p, outcome)
                   ELSE \E outcome \in WriteOutcomes : SaveOne(p, outcome)
    /\ UNCHANGED <<timeout_seconds, requestVars, tmp_exists, childVars,
                   procVars, timed_out, stdout_text, stderr_text, marker_found,
                   dir_ready, is_public_served, peer, markdown, result>>

\* line 268, the loop is over
PersistDone ==
    /\ pc = "persisting"
    /\ idx > Len(IterItems(plots)[1])
    /\ pc' = "persisted"
    /\ UNCHANGED <<timeout_seconds, requestVars, tmp_exists, childVars,
                   procVars, timed_out, outVars, persistVars, markdown, result>>

\* lines 268-300 in a concurrent invocation that saves inline figures to the
\* same directory: one turn of its loop
PeerPersistOne ==
    /\ Len(peer) < MaxPlots
    /\ \E outcome \in WriteOutcomes :
           LET filename == Filename(uuid_count + 1)
           IN  /\ uuid_count' = uuid_count + 1
               /\ peer' = Append(peer, [outcome |-> outcome, name |-> filename])
               /\ files' = Store(files, FileLeft(filename, outcome))
    /\ UNCHANGED <<pc, timeout_seconds, requestVars, tmp_exists, childVars,
                   procVars, timed_out, outVars, dir_ready, is_public_served,
                   idx, image_urls, persist_log, markdown, result>>

---------------------------------------------------------------------------
(* Result composer *)

\* text.strip() is not empty
NonBlank(text) == \E i \in 1..Len(text) : text[i] \notin Whitespace

\* line 316
Title(p, i) == IF Get(p, "title") # "" THEN Get(p, "title") ELSE "Plot " \o ToString(i)

\* FigureRule with the inline payload tried before the url
FigureRule_PayloadFirst(p) ==
    IF ~save_images /\ Get(p, "type") = "base64" /\ Get(p, "data") # ""
    THEN [how |-> "data", ref |-> Get(p, "data")]
    ELSE IF Get(p, "url") # "" THEN [how |-> "url", ref |-> Get(p, "url")]
    ELSE [how |-> "placeholder", ref |-> "(Image not available)"]

\* lines 317-330: how the artifact is shown, and what is embedded
FigureRule(p) ==
    IF Get(p, "url") # "" THEN [how |-> "url", ref |-> Get(p, "url")]
    ELSE IF ~save_images /\ Get(p, "type") = "base64" /\ Get(p, "data") # ""
    THEN [how |-> "data", ref |-> Get(p, "data")]
    ELSE [how |-> "placeholder", ref |-> "(Image not available)"]

\* lines 319, 324, 330: md_img
MdImg(p, i) ==
    IF FigureRule(p).how = "placeholder" THEN FigureRule(p).ref
    ELSE "![" \o Title(p, i) \o "](" \o FigureRule(p).ref \o ")"

\* lines 320, 325, 329: the subsection of one artifact
FigurePart(p, i) ==
    [kind |-> "figure", title |-> Title(p, i), how |-> FigureRule(p).how,
     body |-> MdImg(p, i)]

\* TextParts with a stderr block whatever stderr holds
TextParts_StderrAlways ==
    <<[kind |-> "title", body |-> "### Python Execution Result"]>>
    \o (IF NonBlank(stdout_text)
        THEN <<[kind |-> "stdout", body |-> RStrip(stdout_text)]>>
        ELSE <<[kind |-> "stdout", body |-> <<"<no output>">>]>>)
    \o <<[kind |-> "stderr", body |-> RStrip(stderr_text)]>>

\* lines 306-312: the title and the stdout and stderr blocks
TextParts ==
    <<[kind |-> "title", body |-> "### Python Execution Result"]>>
    \o (IF NonBlank(stdout_text)
        THEN <<[kind |-> "stdout", body |-> RStrip(stdout_text)]>>
        ELSE <<[kind |-> "stdout", body |-> <<"<no output>">>]>>)
    \o (IF NonBlank(stderr_text)
        THEN <<[kind |-> "stderr", body |-> RStrip(stderr_text)]>>
        ELSE <<>>)

\* every item a loop over x visits is a dict (p.get and p.items exist)
AllDicts(x) ==
    /\ IterItems(x) # None
    /\ \A i \in 1..Len(IterItems(x)[1]) : IterItems(x)[1][i].t = "dict"

\* lines 302-331
Compose ==
    /\ pc = "persisted"
    /\ IF ~return_markdown
       THEN /\ markdown' = None
            /\ plots' = plots
            /\ pc' = "composed"
       ELSE IF ~Truthy(plots)
       THEN /\ markdown' = Some(TextParts)
            /\ plots' = plots
            /\ pc' = "composed"
       ELSE IF ~AllDicts(plots)
       THEN \* line 315 or 316 raises TypeError or AttributeError
            /\ pc' = "raised"
            /\ UNCHANGED <<markdown, plots>>
       ELSE LET items == IterItems(plots)[1]
            IN  /\ markdown' = Some(TextParts
                      \o <<[kind |-> "figures", body |-> "### Figures"]>>
                      \o [i \in 1..Len(items) |-> FigurePart(items[i], i)])
                /\ plots' = [plots EXCEPT !.v =
                      [i \in 1..Len(items) |->
                          SetKey(items[i], "markdown", MdImg(items[i], i))]]
                /\ pc' = "composed"
    /\ UNCHANGED <<timeout_seconds, requestVars, tmp_exists, childVars,
                   procVars, timed_out, stdout_text, stderr_text, marker_found,
                   persistVars, result>>

\* lines 334-338
CleanPlots(items) == [i \in 1..Len(items) |-> DelKey(items[i], "data")]

\* line 348
PlotTypes(items) ==
    [i \in 1..Len(items) |->
        IF "type" \in DOMAIN items[i].v THEN items[i].v["type"] ELSE "unknown"]

\* lines 340-355, the dict returned for the items of plots
ResultFor(items) ==
    [stdout |-> stdout_text,
     stderr |-> stderr_text,
     exit_code |-> returncode,
     plots |-> CleanPlots(items),
     markdown |-> markdown,
     debug_info |->
        [plots_found |-> Len(items),
         plot_types |-> PlotTypes(items),
         marker_found |-> marker_found,
         stdout_length |-> Len(stdout_text),
         stderr_length |-> Len(stderr_text),
         images_saved |-> IF save_images THEN Len(image_urls) ELSE 0,
         image_path |-> IF save_images THEN Some(image_path) ELSE None]]

\* lines 333-355: the loop of line 335 raises for a value that cannot be
\* iterated, line 337 for an item that is no dict
Return ==
    /\ pc = "composed"
    /\ IF AllDicts(plots)
       THEN /\ result' = Some(ResultFor(IterItems(plots)[1]))
            /\ pc' = "returned"
       ELSE /\ result' = None
            /\ pc' = "raised"
    /\ UNCHANGED <<timeout_seconds, requestVars, tmp_exists, childVars,
                   procVars, timed_out, outVars, persistVars, markdown>>

---------------------------------------------------------------------------
(* Specifications *)

\* demultiplexing, persistence and composition: run_python after line 224
Finish ==
    \/ Demultiplex
    \/ PersistSkip
    \/ DirNotReady
    \/ DirReady
    \/ PersistOne
    \/ PersistDone
    \/ Compose
    \/ Return

Next ==
    \/ Validate
    \/ WriteTemp
    \/ Spawn
    \/ SpawnFail
    \/ ChildWrite
    \/ ChildWriteErr
    \/ ChildExit
    \/ ChildKilled
    \/ ObserveExit
    \/ ObserveEOF
    \/ CommunicateDone
    \/ DeadlineExpire
    \/ KillChild
    \/ Unlink
    \/ Cancel
    \/ CancelUnwind
    \/ Finish

\* one invocation, from the call to the return or the exception
Spec == Init /\ [][Next]_vars


\* the state run_python is in at line 226 when the child printed text, ended
\* by itself with status 0 and communicate() returned before the deadline
AfterCommunicateWith(text, err, dir) ==
    /\ pc = "decode"
    /\ code = <<"x = 1", NL>>
    /\ debug = FALSE
    /\ os_environ = None
    /\ capture_plots \in BOOLEAN
    /\ wrapped_code = Some(WrappedCode(code, capture_plots))
    /\ env = ChildEnv(debug, os_environ)
    /\ timeout_seconds = PyInt(DefaultTimeout)
    /\ tmp_exists = FALSE
    /\ child = [st |-> "exited", code |-> Some(0)]
    /\ child_out = text
    /\ child_err = err
    /\ kill_sent = FALSE
    /\ script = NoScript
    /\ returncode = Some(0)
    /\ eof_seen = TRUE
    /\ timed_out = FALSE
    /\ stdout_text = text
    /\ stderr_text = err
    /\ marker_found = FALSE
    /\ plots = PyList(<<>>)
    /\ dir_ready = FALSE
    /\ is_public_served = FALSE
    /\ idx = 0
    /\ image_urls = <<>>
    /\ files = dir
    /\ uuid_count = 0
    /\ persist_log = <<>>
    /\ peer = <<>>
    /\ markdown = None
    /\ result = None

\* that state when the child wrote nothing to stderr
AfterCommunicateIn(text, dir) == AfterCommunicateWith(text, <<>>, dir)

\* that state with an empty directory
AfterCommunicate(text) == AfterCommunicateIn(text, <<>>)

\* the demultiplexer on every stdout text of the model, persistence off
InitDemux ==
    /\ \E text \in SeqsUpTo(DemuxTokens, MaxLen) : AfterCommunicate(text)
    /\ capture_plots = TRUE
    /\ save_images = FALSE
    /\ image_path = image_default_path
    /\ return_markdown \in BOOLEAN

NextDemux ==
    \/ Demultiplex
    \/ PersistSkip
    \/ Compose
    \/ Return

SpecDemux == InitDemux /\ [][NextDemux]_vars

\* the persister on every JSON document of the model (the manifests, and the
\* documents that are no array of objects), printed as the only line
InitPersist ==
    /\ \E tok \in DOMAIN JsonValue : AfterCommunicate(marker \o <<tok>>)
    /\ capture_plots \in BOOLEAN
    /\ save_images \in BOOLEAN
    /\ image_path \in Paths
    /\ return_markdown \in BOOLEAN

SpecPersist == InitPersist /\ [][Finish]_vars

\* a file an earlier invocation saved to the directory
Preexisting == [name |-> "plot_0.png", content |-> "complete", mode |-> "0644"]

\* the persister on the manifests of ordinary figures, in a directory that
\* holds a file already and that a concurrent invocation saves figures to
InitShared ==
    /\ \E m \in SeqsUpTo({"A"}, MaxPlots) :
           AfterCommunicateIn(marker \o <<ManifestToken(m)>>, <<Preexisting>>)
    /\ capture_plots = TRUE
    /\ save_images = TRUE
    /\ image_path \in {public_plot_dir, image_default_path}
    /\ return_markdown = FALSE

NextShared ==
    \/ Finish
    \/ PeerPersistOne

SpecShared == InitShared /\ [][NextShared]_vars

\* the child right after the spawn, about to run the user's code, for every
\* capture_plots and debug and every list of figures the code draws
\* ---- composition: a completed child whose stdout and stderr are empty, blank
\* ---- or text, with or without a sentinel line
InitCompose ==
    /\ \E out \in {<<>>, <<NL>>, <<NL, NL>>, <<"a", NL>>},
          err \in {<<>>, <<NL>>, <<"e">>, <<"e", NL>>},
          line \in {<<>>} \cup {marker \o <<ManifestToken(m)>> :
                                    m \in SeqsUpTo({"A", "N"}, MaxPlots)} :
           AfterCommunicateWith(out \o line, err, <<>>)
    /\ capture_plots = TRUE
    /\ save_images \in BOOLEAN
    /\ image_path \in {project_dir \o "/temp/../temp/plot", image_default_path}
    /\ return_markdown \in BOOLEAN

SpecCompose == InitCompose /\ [][Finish]_vars

\* ---- the preparation of a request: every combination of the arguments the
\* ---- preparation reads, up to the creation of the child
InitPrepare ==
    /\ code \in Codes
    /\ capture_plots \in BOOLEAN
    /\ debug \in BOOLEAN
    /\ os_environ \in Toggles
    /\ timeout_seconds \in TimeoutInputs
    /\ save_images = TRUE
    /\ image_path = image_default_path
    /\ return_markdown = TRUE
    /\ AtEntry

NextPrepare ==
    \/ Validate
    \/ WriteTemp
    \/ Spawn
    \/ SpawnFail

SpecPrepare == InitPrepare /\ [][NextPrepare]_vars

InitEpilogue ==
    /\ pc = "waiting"
    /\ code = <<"x = 1", NL>>
    /\ capture_plots \in BOOLEAN
    /\ debug \in BOOLEAN
    /\ os_environ \in Toggles
    /\ wrapped_code = Some(WrappedCode(code, capture_plots))
    /\ env = ChildEnv(debug, os_environ)
    /\ timeout_seconds = PyInt(DefaultTimeout)
    /\ save_images = TRUE
    /\ image_path = image_default_path
    /\ return_markdown = TRUE
    /\ tmp_exists = TRUE
    /\ child = [st |-> "running", code |-> None]
    /\ child_out = <<>>
    /\ child_err = <<>>
    /\ kill_sent = FALSE
    /\ \E figs \in SeqsUpTo({"A", "B"}, MaxPlots) :
           script = [at |-> "user",
                     capture |-> wrapped_code[1] # code,
                     debug |-> env.toggle = Some("1"),
                     figs |-> figs, plots |-> <<>>, user_len |-> 0,
                     failed |-> FALSE]
    /\ returncode = None
    /\ eof_seen = FALSE
    /\ timed_out = FALSE
    /\ stdout_text = <<>>
    /\ stderr_text = <<>>
    /\ marker_found = FALSE
    /\ plots = PyList(<<>>)
    /\ dir_ready = FALSE
    /\ is_public_served = FALSE
    /\ idx = 0
    /\ image_urls = <<>>
    /\ files = <<>>
    /\ uuid_count = 0
    /\ persist_log = <<>>
    /\ peer = <<>>
    /\ markdown = None
    /\ result = None

NextEpilogue ==
    \/ UserWrite
    \/ UserExit
    \/ UserEnd
    \/ EpilogueImports
    \/ EnumerateFigures
    \/ CollectFigure
    \/ CollectPlotly
    \/ PrintBlank
    \/ PrintManifest
    \/ HandlerReport
    \/ HandlerEmit
    \/ ScriptEnd

\* the child from the first statement of the prepared script to its exit
SpecEpilogue == InitEpilogue /\ [][NextEpilogue]_vars

---------------------------------------------------------------------------
(* Properties of the process executor *)

Returned == result # None
TheResult == result[1]

\* C1: the exit code of the result is a timeout sentinel: every timed-out
\* invocation reports the one value no completed child reports (None, what
\* proc.returncode holds while the child's exit is unseen), and no invocation
\* whose child completed before the deadline reports it.
C1_TimeoutSentinel ==
    Returned =>
        /\ timed_out => TheResult.exit_code = None
        /\ ~timed_out => TheResult.exit_code # None

\* C2: when a timed-out invocation has returned, its child process is no
\* longer running.
C2_ChildTerminatedOnTimeout ==
    (pc = "returned" /\ timed_out) => child.st # "running"

\* C3: when the invocation has ended, by a return or by an exception (a
\* failed spawn included), the temporary script file no longer exists.
C3_TempFileRemoved ==
    pc \in {"returned", "raised"} => ~tmp_exists

\* C4: the result of a timed-out invocation has empty stdout, the fixed
\* message naming the coerced timeout as stderr, no artifacts and
\* marker-found false, whatever the child had written.
C4_TimeoutResult ==
    (Returned /\ timed_out) =>
        /\ TheResult.stdout = <<>>
        /\ TheResult.stderr =
               <<"Timed out after ", ToString(timeout_seconds.v), " seconds">>
        /\ timeout_seconds.v > 0
        /\ TheResult.plots = <<>>
        /\ TheResult.debug_info.plots_found = 0
        /\ TheResult.debug_info.marker_found = FALSE

\* a timed-out invocation has returned although the child had written a
\* complete sentinel line with a manifest of one figure
C4_Witness ==
    /\ Returned
    /\ timed_out
    /\ child_out = marker \o <<"[A]">>

\* C5: once the child is spawned the invocation never raises (it returns a
\* result), whatever the child printed.
C5_NeverRaisesAfterSpawn ==
    child.st # "none" => pc # "raised"

---------------------------------------------------------------------------
(* Properties of the output demultiplexer *)

\* the positions of text where a line begins with the marker token: the
\* start of the text, or right after a line terminator
SentinelStarts(text) ==
    {i \in 1..Len(text) :
        /\ text[i] = marker[1]
        /\ (i = 1 \/ text[i - 1] \in LineBreaks)}

\* what follows the marker on the line that begins at position i
Remainder(text, i) == SubSeq(text, i + 1, LineEnd(text, i) - 1)

LastOf(S) == CHOOSE i \in S : \A j \in S : j <= i

\* the manifest a sentinel line stands for: what it decodes to, or the empty
\* list when it does not decode
ManifestOf(rem) == IF JsonLoads(rem) = None THEN PyList(<<>>) ELSE JsonLoads(rem)[1]

\* the lines of text that do not begin with the marker, in their order
OtherLines(text) ==
    SelectSeq(SplitLines(text), LAMBDA l : ~StartsWith(l, marker))

\* no line of text begins with the marker
NoSentinelLine(text) == SentinelStarts(text) = {}

\* C6: when the child exits before the deadline and no line of its stdout
\* begins with the sentinel token, the result has no artifacts and its stdout
\* is the child's stdout, token for token.
C6_VerbatimWithoutSentinel ==
    (Returned /\ ~timed_out /\ NoSentinelLine(child_out)) =>
        /\ TheResult.plots = <<>>
        /\ TheResult.stdout = child_out

\* C7: a sentinel line whose remainder does not decode (the last sentinel
\* line of the text, the one that decides) yields no artifacts and
\* marker-found true; no line of the result's stdout begins with the token,
\* and the other lines are kept in their order.
C7_UndecodableSentinel ==
    (Returned /\ ~NoSentinelLine(child_out)
       /\ JsonLoads(Remainder(child_out, LastOf(SentinelStarts(child_out)))) = None) =>
        /\ TheResult.plots = <<>>
        /\ TheResult.debug_info.marker_found
        /\ NoSentinelLine(TheResult.stdout)
        /\ TheResult.stdout = JoinNL(OtherLines(child_out))

\* a result for a text with an undecodable sentinel line between two other
\* lines
C7_Witness ==
    /\ Returned
    /\ \E i \in SentinelStarts(child_out) :
           /\ SentinelStarts(child_out) = {i}
           /\ i > 1
           /\ LineEnd(child_out, i) < Len(child_out)
           /\ JsonLoads(Remainder(child_out, i)) = None
    /\ Len(OtherLines(child_out)) >= 2

\* the artifacts of the result for the manifest decoded from a line: the
\* composer adds 'markdown' and the return drops 'data'
SameArtifacts(cleaned, manifest) ==
    /\ Len(cleaned) = Len(manifest.v)
    /\ \A i \in 1..Len(cleaned) :
           DelKey(cleaned[i], "markdown") = DelKey(manifest.v[i], "data")

\* C8: with several sentinel lines the artifact list is the one of the last
\* such line (the empty list when that line does not decode), and no line of
\* the result's stdout begins with the token.
C8_LastSentinelWins ==
    LET starts == SentinelStarts(child_out)
        last == ManifestOf(Remainder(child_out, LastOf(starts)))
    IN  Cardinality(starts) >= 2 =>
            /\ pc = "demuxed" => plots = last
            /\ Returned =>
                   /\ SameArtifacts(TheResult.plots, last)
                   /\ NoSentinelLine(TheResult.stdout)
                   /\ TheResult.stdout = JoinNL(OtherLines(child_out))

\* a result for a text with two sentinel lines that decode to different
\* manifests
C8_Witness ==
    /\ Returned
    /\ child_out = marker \o <<"[A]", NL>> \o marker \o <<"[B]">>
    /\ Len(TheResult.plots) = 1

\* C9: marker-found is true exactly when a line of the child's stdout begins
\* with the sentinel token; when none does, the artifact list is empty.
C9_MarkerFoundIffSentinelLine ==
    Returned =>
        /\ TheResult.debug_info.marker_found <=> ~NoSentinelLine(child_out)
        /\ NoSentinelLine(child_out) => TheResult.plots = <<>>

---------------------------------------------------------------------------
(* Properties of the artifact persister *)

\* image_path names the public directory: equal to it once normalised
NamesPublicDir(path) ==
    path \in {project_dir \o "/temp/plot", project_dir \o "/temp/../temp/plot"}

\* the artifact is external: its url is the base, the route and the name
\* generated for it, a complete file of that name is in the directory, and
\* the payload is gone
ExternalAs(p, name) ==
    /\ \E n \in 1..uuid_count : name = "plot_" \o ToString(n) \o ".png"
    /\ \E k \in 1..Len(files) : files[k].name = name /\ files[k].content = "complete"
    /\ "url" \in DOMAIN p.v
    /\ p.v["url"] = "https://www.liverpoolcivicdata.com/temp/plot/" \o name
    /\ "data" \notin DOMAIN p.v

\* every artifact whose loop turn ended in one of the outcomes is external,
\* in plots and in the result
ExternalWhen(outcomes) ==
    (dir_ready /\ NamesPublicDir(image_path)) =>
        \A i \in 1..Len(persist_log) :
            persist_log[i].outcome \in outcomes =>
                /\ pc # "raised" => ExternalAs(plots.v[i], persist_log[i].name)
                /\ Returned => ExternalAs(TheResult.plots[i], persist_log[i].name)

\* C10 as stated: with persistence on and the directory writable and public,
\* every inline artifact whose file write succeeds ends with the url
\* <base-url>/temp/plot/<generated filename> and without its payload.
C10_WrittenIsExternal == ExternalWhen({"ok", "chmod_fails"})

\* C10 amended: ... every inline artifact whose file write and permission
\* change both succeed ends with that url and without its payload.
C10_WrittenAndReadableIsExternal == ExternalWhen({"ok"})

\* a result for two figures saved to the public directory given by an
\* unnormalised path, the first of which the manifest had given another url
C10_Witness ==
    /\ Returned
    /\ image_path = project_dir \o "/temp/../temp/plot"
    /\ dir_ready
    /\ Len(persist_log) = 2
    /\ \A i \in 1..2 : persist_log[i].outcome = "ok"
    /\ child_out = marker \o <<"[U,A]">>

\* the manifest the child emitted: what its last sentinel line decodes to
Emitted ==
    IF NoSentinelLine(child_out) THEN PyList(<<>>)
    ELSE ManifestOf(Remainder(child_out, LastOf(SentinelStarts(child_out))))

\* the artifact has a url and a payload at once
HoldsBoth(p) == Get(p, "url") # "" /\ Get(p, "data") # ""

\* C11: in every state from manifest decoding to the returned result, no
\* artifact of the list, and none of the result, has both a url and an inline
\* payload, whatever manifest the child emitted.
C11_NoUrlWithPayload ==
    /\ plots.t = "list" =>
           \A i \in 1..Len(plots.v) :
               plots.v[i].t = "dict" => ~HoldsBoth(plots.v[i])
    /\ Returned =>
           \A i \in 1..Len(TheResult.plots) : ~HoldsBoth(TheResult.plots[i])

\* C12: every artifact of the returned result that was emitted inline has
\* exactly one of an inline payload and a url: the payload unless it became
\* external.
C12_ExactlyOneOfPayloadOrUrl ==
    Returned =>
        \A i \in 1..Len(TheResult.plots) :
            IsInline(Emitted.v[i]) =>
                (Get(TheResult.plots[i], "data") # "")
                    # (Get(TheResult.plots[i], "url") # "")

\* the directory check of this invocation failed
DirCheckFailed ==
    persist_log # <<>> /\ persist_log[1].outcome = "dir_not_ready"

\* C13: when persistence is requested and the directory cannot be created or
\* is not writable, the invocation does not raise, writes no file, gives no
\* artifact a url, and reports zero images persisted.
C13_UnwritableDirDegrades ==
    DirCheckFailed =>
        /\ pc # "raised"
        /\ files = <<>>
        /\ image_urls = <<>>
        /\ AllDicts(plots) =>
               \A i \in 1..Len(plots.v) :
                   Get(plots.v[i], "url") = Get(Emitted.v[i], "url")
        /\ Returned => TheResult.debug_info.images_saved = 0

\* the file of that name is in the directory, complete and readable
WrittenFile(name) ==
    \E k \in 1..Len(files) :
        files[k] = [name |-> name, content |-> "complete", mode |-> "0644"]

\* the artifact at turn i of the loop is as the manifest gave it (the
\* composer's 'markdown' aside)
AsEmitted(i) == DelKey(plots.v[i], "markdown") = Emitted.v[i]

\* C14: with persistence on and a writable directory that is not the public
\* one, a write is attempted for every inline artifact with a data-URL
\* payload, the file of every turn that meets no failure is in the directory,
\* and every artifact stays as emitted: no url is given, the payload is kept.
C14_NonPublicDirKeepsInline ==
    (dir_ready /\ ~NamesPublicDir(image_path)) =>
        /\ image_urls = <<>>
        /\ \A i \in 1..Len(persist_log) :
               /\ (IsInline(Emitted.v[i]) /\ Base64Part(Get(Emitted.v[i], "data")) # None)
                      <=> persist_log[i].name # ""
               /\ persist_log[i].outcome = "ok" => WrittenFile(persist_log[i].name)
               /\ pc # "raised" => AsEmitted(i)

\* a result for two figures saved to a writable directory that is not public
C14_Witness ==
    /\ Returned
    /\ image_path = image_default_path
    /\ dir_ready
    /\ child_out = marker \o <<"[A,B]">>
    /\ Len(persist_log) = 2
    /\ \A i \in 1..2 : persist_log[i].outcome = "ok"

\* the ways one turn of the persistence loop fails
Failures == {"no_comma", "open_fails", "decode_fails", "write_fails", "chmod_fails"}

\* the artifact is the emitted one, external or not
SameArtifact(p, e) ==
    DelKey(DelKey(DelKey(p, "markdown"), "url"), "data")
        = DelKey(DelKey(e, "url"), "data")

\* C15: a failure while persisting one artifact (payload decode, file write,
\* permission change) leaves that artifact as emitted, inline with its
\* payload; the loop goes on to every later artifact, and the list keeps the
\* length and the order of the decoded manifest, in plots and in the result.
C15_FailureLeavesInline ==
    (dir_ready /\ persist_log # <<>>) =>
        /\ \A i \in 1..Len(persist_log) :
               persist_log[i].outcome \in Failures =>
                   /\ AsEmitted(i)
                   /\ Get(plots.v[i], "data") # ""
                   /\ Get(plots.v[i], "url") = Get(Emitted.v[i], "url")
        /\ pc \in {"persisted", "composed", "returned"} =>
               Len(persist_log) = Len(Emitted.v)
        /\ Len(plots.v) = Len(Emitted.v)
        /\ \A i \in 1..Len(plots.v) : SameArtifact(plots.v[i], Emitted.v[i])
        /\ Returned =>
               /\ Len(TheResult.plots) = Len(Emitted.v)
               /\ \A i \in 1..Len(Emitted.v) :
                      SameArtifact(TheResult.plots[i], Emitted.v[i])

\* a result for two figures saved to the public directory: the payload of the
\* first does not decode, the second is saved after it
C15_Witness ==
    /\ Returned
    /\ dir_ready
    /\ NamesPublicDir(image_path)
    /\ child_out = marker \o <<"[P,A]">>
    /\ Len(persist_log) = 2
    /\ persist_log[1].outcome = "decode_fails"
    /\ persist_log[2].outcome = "ok"

\* C16: the images-persisted count of the diagnostics is the number of
\* artifacts whose file was written completely to the directory by this
\* invocation, for a public directory and for any other.
C16_ImagesSavedCountsWrites ==
    Returned =>
        TheResult.debug_info.images_saved =
            Cardinality({k \in 1..Len(files) : files[k].content = "complete"})

---------------------------------------------------------------------------
(* Properties of the result composer *)

\* the subsections of the document, one per artifact
Figures == SelectSeq(markdown[1], LAMBDA part : part.kind = "figure")

\* the image reference of a titled artifact
ImageRef(p, i, ref) ==
    "![" \o (IF Get(p, "title") # "" THEN Get(p, "title") ELSE "Plot " \o ToString(i))
         \o "](" \o ref \o ")"

\* what the document shows for artifact i when the payload is embedded under
\* the condition skipped
Rendering(p, i, skipped) ==
    IF Get(p, "url") # "" THEN ImageRef(p, i, Get(p, "url"))
    ELSE IF skipped /\ Get(p, "type") = "base64" /\ Get(p, "data") # ""
    THEN ImageRef(p, i, Get(p, "data"))
    ELSE "(Image not available)"

\* every artifact is rendered in the document, and in its 'markdown' field,
\* by the three rules in their priority, the second under the condition
\* skipped
RenderedBy(skipped) ==
    (pc \in {"composed", "returned"} /\ markdown # None /\ AllDicts(plots)
       /\ Truthy(plots)) =>
        /\ Len(Figures) = Len(plots.v)
        /\ \A i \in 1..Len(plots.v) :
               /\ Figures[i].body = Rendering(plots.v[i], i, skipped)
               /\ Get(plots.v[i], "markdown") = Figures[i].body
               /\ (Returned /\ Get(plots.v[i], "url") # "") =>
                      Figures[i].body =
                          ImageRef(plots.v[i], i, Get(TheResult.plots[i], "url"))

C19_DefaultPathGivesUrl ==
    (Returned /\ image_path = image_default_path /\ dir_ready) =>
        \A i \in 1..Len(persist_log) :
            persist_log[i].outcome = "ok" =>
                /\ WrittenFile(persist_log[i].name)
                /\ Get(TheResult.plots[i], "url")
                       = "https://www.liverpoolcivicdata.com/temp/plot/"
                             \o persist_log[i].name

---------------------------------------------------------------------------
(* Properties of the shared directory *)

\* the turns, of this invocation and of the concurrent one, that opened a file
Writes ==
    {<<"own", i>> : i \in {j \in 1..Len(persist_log) :
                              persist_log[j].name # ""
                              /\ persist_log[j].outcome # "open_fails"}}
    \cup {<<"peer", i>> : i \in {j \in 1..Len(peer) :
                                    peer[j].outcome # "open_fails"}}

TurnOf(w) == IF w[1] = "own" THEN persist_log[w[2]] ELSE peer[w[2]]

\* the content a turn leaves in its file
ContentLeft(outcome) ==
    CASE outcome = "decode_fails" -> "empty"
      [] outcome = "write_fails" -> "partial"
      [] OTHER -> "complete"

\* C17: the files written by two invocations that persist to the same
\* directory concurrently have pairwise distinct names, each is in the
\* directory as its own turn left it, and the file that was there before is
\* still there, unchanged.
C17_DistinctFilesNoOverwrite ==
    /\ \A w1, w2 \in Writes : w1 # w2 => TurnOf(w1).name # TurnOf(w2).name
    /\ \A w \in Writes :
           /\ TurnOf(w).name # Preexisting.name
           /\ \E k \in 1..Len(files) :
                  /\ files[k].name = TurnOf(w).name
                  /\ files[k].content = ContentLeft(TurnOf(w).outcome)
    /\ Len(files) = 1 + Cardinality(Writes)
    /\ files[1] = Preexisting

\* both invocations have saved a figure to the directory, the concurrent one
\* between two turns of this one
C17_Witness ==
    /\ Returned
    /\ dir_ready
    /\ Len(persist_log) = 2
    /\ Len(peer) = 1
    /\ persist_log[1].name = "plot_1.png"
    /\ peer[1].name = "plot_2.png"
    /\ persist_log[2].name = "plot_3.png"
    /\ \A i \in 1..2 : persist_log[i].outcome = "ok"
    /\ peer[1].outcome = "ok"

---------------------------------------------------------------------------
(* Properties of the script preparer *)

\* where the epilogue's sentinel lines begin in the child's stdout
EpilogueSentinels ==
    {i \in SentinelStarts(child_out) : i > script.user_len}

\* C20: when the user's code has run to its end with capture on and the
\* child has exited, the epilogue has emitted exactly one sentinel line; when
\* a step of the epilogue failed that line carries the empty list; and the
\* child's exit status is 0, failure or not (no exception left the script).
C20_EpilogueAlwaysEmits ==
    (script.at = "exited" /\ script.capture) =>
        /\ Cardinality(EpilogueSentinels) = 1
        /\ script.failed =>
               \A i \in EpilogueSentinels :
                   Remainder(child_out, i) = <<ManifestToken(<<>>)>>
        /\ child.code = Some(0)

\* the positions of child_out where the epilogue wrote the marker
EpilogueMarkers ==
    {i \in (script.user_len + 1)..Len(child_out) : child_out[i] = marker[1]}

\* C21: with capture on, every marker the epilogue wrote -- on its normal
\* path and in its exception handler -- stands at the beginning of a line of
\* the child's stdout, whatever the user's code wrote before it; and once the
\* child has exited, the stdout that demultiplexing hands to the caller does
\* not contain the marker.
C21_SentinelStartsLine ==
    script.capture =>
        /\ EpilogueMarkers \subseteq SentinelStarts(child_out)
        /\ script.at = "exited" => ~MarkerFound(Demux(child_out).stdout_text)

\* C22: when the debug argument is false the epilogue writes nothing to
\* standard error, on its normal path and in its exception handler (the
\* user's code of this specification writes to stdout only).
C22_SilentWithoutDebug ==
    (script.capture /\ ~debug) => child_err = <<>>

\* C23: the environment built for the child has MCP_RUN_PY_DEBUG = '1'
\* exactly when the debug argument is true, and has no MCP_RUN_PY_DEBUG at
\* all when it is false, whatever the server's own environment holds; and no
\* step of an invocation changes the server's own environment.
C23_ChildEnvFollowsDebug ==
    /\ [](env.built =>
            /\ (env.toggle = Some("1")) <=> debug
            /\ ~debug => env.toggle = None)
    /\ [][os_environ' = os_environ]_vars

\* the child runs with debug off in a server whose environment has the toggle
C23_Witness ==
    /\ child.st = "running"
    /\ ~debug
    /\ os_environ = Some("1")
    /\ env = [built |-> TRUE, toggle |-> None]

\* C24: validation leaves a positive integer in timeout_seconds: the
\* requested value when that is a positive integer or the decimal text of
\* one, and 60 when it is zero, negative, or not a number at all.
C24_EffectiveTimeout ==
    /\ [](pc # "start" => (timeout_seconds.t = "int" /\ timeout_seconds.v > 0))
    /\ [][pc = "start" =>
            LET x == timeout_seconds
                n == timeout_seconds'.v
            IN  /\ (x.t = "int" /\ x.v > 0) => n = x.v
                /\ (x.t = "str" /\ x.v = "5") => n = 5
                /\ (x.t = "int" /\ x.v <= 0) => n = 60
                /\ (x.t = "None" \/ (x.t = "str" /\ x.v = "abc")) => n = 60]_vars

\* validation has replaced a request's timeout by the default
C24_Witness ==
    /\ pc = "validated"
    /\ timeout_seconds = PyInt(60)

\* the text that follows the user's code when capture is on
Epilogue == <<NL, NL>> \o plot_collector \o <<NL>>

\* C25: the prepared script is the user's code itself when capture is off,
\* and the user's code followed by one fixed text when capture is on; either
\* way the user's code is a prefix of it, token for token.
C25_UserCodeIsPrefix ==
    wrapped_code # None =>
        LET w == wrapped_code[1]
        IN  /\ ~capture_plots => w = code
            /\ capture_plots => w = code \o Epilogue
            /\ SubSeq(w, 1, Len(code)) = code

\* a script whose code ends with a newline has been prepared with capture on
C25_Witness ==
    /\ pc = "tmp_written"
    /\ capture_plots
    /\ code = <<"x = 1", NL>>
    /\ Len(wrapped_code[1]) > Len(code)

\* the rendered document has the title, the stdout block, the stderr block
\* when stderr HasText, then the heading and one subsection per artifact in
\* the order of the artifacts; the stdout block is the placeholder exactly
\* when stdout does not HasText
DocumentShape(HasText(_)) ==
    LET doc == markdown[1]
        items == plots.v
        nerr == IF HasText(stderr_text) THEN 1 ELSE 0
        head == IF Len(items) > 0 THEN 1 ELSE 0
    IN  /\ Len(doc) = 2 + nerr + head + Len(items)
        /\ doc[1].kind = "title"
        /\ doc[2].kind = "stdout"
        /\ (doc[2].body = <<"<no output>">>) <=> ~HasText(stdout_text)
        /\ HasText(stdout_text) => doc[2].body = RStrip(stdout_text)
        /\ nerr = 1 => (doc[3].kind = "stderr" /\ doc[3].body = RStrip(stderr_text))
        /\ head = 1 => doc[3 + nerr].kind = "figures"
        /\ \A i \in 1..Len(items) :
               /\ doc[2 + nerr + head + i].kind = "figure"
               /\ doc[2 + nerr + head + i].title = Title(items[i], i)

NonEmpty(text) == text # <<>>

\* the document exists exactly when requested and has the shape above; the
\* counts of the result are those of its artifacts and texts either way
DocumentAndCounts(HasText(_)) ==
    pc \in {"composed", "returned"} =>
        /\ (markdown # None) <=> return_markdown
        /\ markdown # None => DocumentShape(HasText)
        /\ Returned =>
               /\ TheResult.debug_info.plots_found = Len(TheResult.plots)
               /\ TheResult.debug_info.stdout_length = Len(TheResult.stdout)
               /\ TheResult.debug_info.stderr_length = Len(TheResult.stderr)

\* C26 as stated: the document is produced exactly when requested and is the
\* title, the stdout block, the stderr block and the artifacts' subsections
\* in order; the placeholder is shown exactly when stdout is empty and the
\* stderr block is present exactly when stderr is not empty; the counts are
\* reported with or without the document.
C26_DocumentByEmptiness == DocumentAndCounts(NonEmpty)

\* C26 amended: the same, with the placeholder shown exactly when stdout has
\* no character other than whitespace and the stderr block present exactly
\* when stderr has a character other than whitespace.
C26_DocumentByBlankness == DocumentAndCounts(NonBlank)

\* a returned document for a stdout of one newline, a stderr with text and two
\* artifacts
C26_Witness ==
    /\ Returned
    /\ return_markdown
    /\ TheResult.stdout = <<NL>>
    /\ NonBlank(TheResult.stderr)
    /\ Len(TheResult.plots) = 2
    /\ Len(markdown[1]) = 6

\* the artifact is of inline kind and has a payload
InlineWithPayload(p) ==
    /\ "type" \in DOMAIN p.v /\ p.v["type"] = "base64"
    /\ "data" \in DOMAIN p.v /\ p.v["data"] # ""

\* C27: for a manifest that is a list of objects, every file in the directory
\* was written at the loop turn of an artifact of type base64 with a payload,
\* with persistence on and the directory check passed; an artifact that
\* differs from what the manifest gave is such an artifact, and its turn
\* ended well; and with persistence off (as requested, or after a failed
\* directory check) there is no file and every artifact is as emitted.
C27_PersisterFrame ==
    (pc \in {"persisting", "persisted", "composed", "returned"} /\ AllDicts(Emitted)) =>
        /\ \A k \in 1..Len(files) :
               /\ dir_ready /\ save_images
               /\ \E j \in 1..Len(persist_log) :
                      /\ persist_log[j].name = files[k].name
                      /\ InlineWithPayload(Emitted.v[j])
        /\ \A i \in 1..Len(plots.v) :
               ~AsEmitted(i) =>
                   /\ dir_ready /\ save_images
                   /\ InlineWithPayload(Emitted.v[i])
                   /\ i <= Len(persist_log) /\ persist_log[i].outcome = "ok"
        /\ \A j \in 1..Len(persist_log) :
               (persist_log[j].outcome # "dir_not_ready" /\ ~InlineWithPayload(Emitted.v[j])) =>
                   /\ persist_log[j].name = ""
                   /\ AsEmitted(j)
        /\ ~save_images =>
               /\ files = <<>>
               /\ \A i \in 1..Len(plots.v) : AsEmitted(i)

\* the loop passed over an artifact of another type and then saved an inline
\* one in the public directory
C27_Witness ==
    /\ pc = "persisted"
    /\ dir_ready /\ is_public_served
    /\ Len(persist_log) = 2
    /\ persist_log[1].outcome = "not_inline"
    /\ persist_log[2].outcome = "ok"
    /\ Len(files) = 1
    /\ ~AsEmitted(2)

\* the urls this invocation's persister generated: the base url, the route
\* and the name of a file of a turn that ended well, completely written
GeneratedUrls ==
    {base_url \o "/temp/plot/" \o persist_log[j].name :
        j \in {n \in 1..Len(persist_log) :
                  /\ persist_log[n].outcome = "ok"
                  /\ is_public_served
                  /\ WrittenFile(persist_log[n].name)}}

\* C28: whatever manifest the child emitted, every url of an artifact of the
\* list after persistence, every url of an artifact of the result and every
\* url embedded in the rendered document is one the persister generated in
\* this invocation for a file it had completely written.
C28_UrlsAreGenerated ==
    /\ (pc \in {"persisted", "composed", "returned"} /\ AllDicts(plots)) =>
           \A i \in 1..Len(plots.v) :
               Get(plots.v[i], "url") # "" => Get(plots.v[i], "url") \in GeneratedUrls
    /\ Returned =>
           \A i \in 1..Len(TheResult.plots) :
               Get(TheResult.plots[i], "url") # "" =>
                   Get(TheResult.plots[i], "url") \in GeneratedUrls
    /\ (pc \in {"composed", "returned"} /\ markdown # None) =>
           \A k \in 1..Len(markdown[1]) :
               (markdown[1][k].kind = "figure" /\ markdown[1][k].how = "url") =>
                   \E u \in GeneratedUrls :
                       markdown[1][k].body = "![" \o markdown[1][k].title \o "](" \o u \o ")"

\* C29: with capture off, a line of the child's stdout that begins with the
\* marker is decoded as the manifest all the same: after demultiplexing the
\* artifact list is what the line stands for, the marker is reported found,
\* and the stdout handed on has no line that begins with the marker.
C29_DemuxIgnoresCapture ==
    (~capture_plots /\ pc \notin {"decode", "raised"} /\ ~NoSentinelLine(child_out)) =>
        /\ marker_found
        /\ NoSentinelLine(stdout_text)
        /\ pc = "demuxed" => plots = Emitted
        /\ (Returned /\ AllDicts(Emitted)) => Len(TheResult.plots) = Len(Emitted.v)

\* a result with an artifact for a request that did not ask for capture
C29_Witness ==
    /\ Returned
    /\ ~capture_plots
    /\ Len(TheResult.plots) > 0
    /\ TheResult.stdout = <<>>

\* C30: when a cancelled invocation has ended, its temporary file has been
\* removed and no kill was sent to its child.
C30_CancelRemovesFileOnly ==
    pc = "cancelled" => (~tmp_exists /\ ~kill_sent)

\* the cancelled invocation has ended and its child is still running
C30_Witness ==
    /\ pc = "cancelled"
    /\ ~tmp_exists
    /\ child.st = "running"

=============================================================================
